---- MODULE Spec2Model ----
(***************************************************************************)
(* The stock quote service of scripts/stock-api.py: the handler of         *)
(* GET /api/stocks/<stock> (stock_api) and calulcate_stock_changes.        *)
(*                                                                         *)
(* A request runs from one blocking provider call to the next; each action *)
(* below is the code executed from one provider call up to the next one    *)
(* (or up to the response).  Prices are integers counting eighths of a     *)
(* currency unit (every such value is an exact binary float, as are the    *)
(* values the provider sends); the rounded price and the percent fields    *)
(* are integers counting hundredths.                                       *)
(***************************************************************************)
EXTENDS Integers, Sequences, FiniteSets, TLC

VARIABLES req, seen

vars == <<req, seen>>

\* ------------------------------------------------------------------ bounds
NumRequests == 2
MaxLen == 3

Requests == 1..NumRequests

\* ------------------------------------------------------- JSON-like values
\* A value of the provider's info dict: null, or a number.
Null == <<>>
Num(n) == <<n>>
IsNum(v) == Len(v) = 1
Val(v) == v[1]

EmptyDict == [k \in {} |-> Null]

\* whole currency units, in eighths
P(whole) == whole * 8

\* ------------------------------------------------------- provider replies
Raised == [ok |-> FALSE, val |-> <<>>]
Ok(v) == [ok |-> TRUE, val |-> v]

\* ---------------------------------------------------------------- numbers
Abs(x) == IF x < 0 THEN -x ELSE x

\* The same with a tie going away from zero (round half up).
Round2HalfUp(n, d) ==
    LET a == Abs(n)
        q == a \div d
        m == a % d
        up == IF 2 * m >= d THEN q + 1 ELSE q
    IN  IF n < 0 THEN -up ELSE up

\* round(n/d) to an integer, a tie going to the even neighbour: what Python's
\* round(x, 2) and numpy's float64.__round__ do with x = n/d hundredths.
Round2(n, d) ==
    LET a == Abs(n)
        q == a \div d
        m == a % d
        up == IF 2 * m > d THEN q + 1
              ELSE IF 2 * m < d THEN q
              ELSE IF q % 2 = 0 THEN q ELSE q + 1
    IN  IF n < 0 THEN -up ELSE up

\* round(info["regularMarketPrice"], 2): eighths to hundredths
RoundPrice(p) == Round2(p * 100, 8)

\* A plausible slip: the operands of the difference swapped.
PercentChangeSwapped(current_price, previous_close) ==
    Round2((previous_close - current_price) * 10000, previous_close)

\* round(((current_price - previous_close) / previous_close) * 100, 2)
PercentChange(current_price, previous_close) ==
    Round2((current_price - previous_close) * 10000, previous_close)

\* pct_change = ((end_price - start_price) / start_price) * 100, rounded
PctChange(start_price, end_price) ==
    Round2((end_price - start_price) * 10000, start_price)

\* A plausible slip: iloc[1] for iloc[-1].
WindowChangeSecond(hist) == PctChange(hist[1], hist[IF Len(hist) > 1 THEN 2 ELSE 1])

\* the loop body of calulcate_stock_changes on one fetched series
WindowChange(hist) == PctChange(hist[1], hist[Len(hist)])

\* A plausible slip: the windows in another order.
WindowsReordered == <<"6mo", "1mo", "1y">>

\* for date in ["1mo", "6mo", "1y"]
Windows == <<"1mo", "6mo", "1y">>

\* ---------------------------------------------------------------- handler
\* A plausible slip: the validity check left out.
InvalidTickerUnchecked(info) == FALSE

\* if "regularMarketPrice" not in info
InvalidTicker(info) == "regularMarketPrice" \notin DOMAIN info

\* A plausible slip: previous_close = info.get("previousClose") or guarded,
\* so that a missing or zero previous close gives a change of 0.
CurrentChangeLenient(info) ==
    IF "regularMarketPrice" \notin DOMAIN info
    THEN [raised |-> TRUE, val |-> 0]
    ELSE IF "previousClose" \notin DOMAIN info
    THEN [raised |-> FALSE, val |-> 0]
    ELSE IF ~IsNum(info["previousClose"]) \/ ~IsNum(info["regularMarketPrice"])
    THEN [raised |-> TRUE, val |-> 0]
    ELSE IF Val(info["previousClose"]) = 0
    THEN [raised |-> FALSE, val |-> 0]
    ELSE [raised |-> FALSE,
          val |-> PercentChange(Val(info["regularMarketPrice"]),
                                Val(info["previousClose"]))]

\* Lines 17-19: the current percent change, or the exception raised on the
\* way: KeyError (17, 18), TypeError (a null operand, 19), ZeroDivisionError
\* (19).
CurrentChange(info) ==
    IF "previousClose" \notin DOMAIN info
    THEN [raised |-> TRUE, val |-> 0]
    ELSE IF "regularMarketPrice" \notin DOMAIN info
    THEN [raised |-> TRUE, val |-> 0]
    ELSE IF ~IsNum(info["previousClose"]) \/ ~IsNum(info["regularMarketPrice"])
    THEN [raised |-> TRUE, val |-> 0]
    ELSE IF Val(info["previousClose"]) = 0
    THEN [raised |-> TRUE, val |-> 0]
    ELSE [raised |-> FALSE,
          val |-> PercentChange(Val(info["regularMarketPrice"]),
                                Val(info["previousClose"]))]

NoBody == [k \in {} |-> 0]

ErrorResult == [error |-> "Invalid ticker!"]

\* A plausible slip: one window left out of the record.
QuoteResultPartial(stock, info, percent_change, historical_percents) ==
    [stock |-> stock,
     price |-> RoundPrice(Val(info["regularMarketPrice"])),
     percent |-> percent_change,
     percent_1mo |-> historical_percents["1mo"],
     percent_6mo |-> historical_percents["6mo"]]

\* the dict given to jsonify on success
QuoteResult(stock, info, percent_change, historical_percents) ==
    [stock |-> stock,
     price |-> RoundPrice(Val(info["regularMarketPrice"])),
     percent |-> percent_change,
     percent_1mo |-> historical_percents["1mo"],
     percent_6mo |-> historical_percents["6mo"],
     percent_1y |-> historical_percents["1y"]]

Idle ==
    [pc |-> "idle", stock |-> "", info |-> EmptyDict, percent_change |-> 0,
     data |-> [k \in {} |-> 0], calls |-> <<>>, status |-> 0, body |-> NoBody]

\* A plausible slip: a blanket except that answers as for an invalid ticker.
CaughtAsInvalid(frame) ==
    [frame EXCEPT !.pc = "done", !.status = 400,
                  !.body = [error |-> "Invalid ticker!"]]

\* An exception nothing catches: the request ends, Flask answers 500.
Unhandled(frame) == [frame EXCEPT !.pc = "done", !.status = 500, !.body = NoBody]

\* return jsonify(...), status
Respond(frame, status, body) ==
    [frame EXCEPT !.pc = "done", !.status = status, !.body = body]

\* A plausible slip: data = {} at module level, one dict for all requests.
SharedPercents(r) == req[1].data

\* the dict calulcate_stock_changes returned to this request
Percents(r) == req[r].data

Init ==
    /\ req = [r \in Requests |-> Idle]
    /\ seen = [r \in Requests |-> <<>>]

\* The route dispatches a request: ticker = yf.Ticker(stock)
Receive(r, stock) ==
    /\ req[r].pc = "idle"
    /\ req' = [req EXCEPT ![r] = [@ EXCEPT !.pc = "get_info", !.stock = stock]]
    /\ UNCHANGED seen

\* info = ticker.get_info(), then lines 14-19
GetInfo(r, reply) ==
    /\ req[r].pc = "get_info"
    /\ seen' = [seen EXCEPT ![r] = Append(@, reply)]
    /\ LET called == [req[r] EXCEPT !.calls = Append(@, "info")]
           info == reply.val
           change == CurrentChange(info)
       IN  req' = [req EXCEPT ![r] =
                IF ~reply.ok THEN Unhandled(called)
                ELSE IF InvalidTicker(info)
                THEN Respond([called EXCEPT !.info = info], 400, ErrorResult)
                ELSE IF change.raised
                THEN Unhandled([called EXCEPT !.info = info])
                ELSE [called EXCEPT !.info = info,
                                    !.percent_change = change.val,
                                    !.pc = "history"]]

\* One iteration of the loop of calulcate_stock_changes (lines 38-43).
History(r, reply) ==
    /\ req[r].pc = "history"
    /\ seen' = [seen EXCEPT ![r] = Append(@, reply)]
    /\ LET date == Windows[Len(req[r].calls)]
           called == [req[r] EXCEPT !.calls = Append(@, date)]
           hist == reply.val
           data == [k \in DOMAIN req[r].data \cup {date} |->
                      IF k = date THEN WindowChange(hist) ELSE req[r].data[k]]
       IN  req' = [req EXCEPT ![r] =
                IF ~reply.ok \/ Len(hist) = 0 THEN Unhandled(called)
                ELSE [called EXCEPT !.data = data,
                                    !.pc = IF Len(called.calls) > Len(Windows)
                                           THEN "return" ELSE "history"]]

\* return data, then lines 23-32: a missing key would be a KeyError.
Return(r) ==
    /\ req[r].pc = "return"
    /\ req' = [req EXCEPT ![r] =
            IF \A i \in DOMAIN Windows : Windows[i] \in DOMAIN Percents(r)
            THEN Respond(@, 200, QuoteResult(@.stock, @.info, @.percent_change,
                                             Percents(r)))
            ELSE Unhandled(@)]
    /\ UNCHANGED seen

\* ------------------------------------------------------ what the provider
\* may answer
Tickers == {"AAPL", "ZZZZ"}

InfoDicts(prices, closes) ==
    {[k \in {} |-> Null]}
    \cup {[k \in {"regularMarketPrice"} |-> v] : v \in prices}
    \cup {[k \in {"previousClose"} |-> v] : v \in closes}
    \cup UNION {{[k \in {"regularMarketPrice", "previousClose"} |->
                    IF k = "previousClose" THEN c ELSE v] : v \in prices}
                : c \in closes}

SeqsUpTo(S, n) == UNION {[1..k -> S] : k \in 0..n}

\* series with the given first and last close and anything in between
SeriesOf(ends, mids, n) ==
    {<<>>}
    \cup {<<e[1]>> : e \in ends}
    \cup {<<e[1]>> \o m \o <<e[2]>> : e \in ends, m \in SeqsUpTo(mids, n - 2)}

InfoReplies ==
    {Raised} \cup
    {Ok(d) : d \in InfoDicts({Null, Num(P(110)), Num(P(153)), Num(1), Num(3),
                                  Num(P(100) + 1)},
                             {Null, Num(0), Num(P(100)), Num(P(150))})}

EndPoints ==
    {<<P(50), P(55)>>, <<P(200), P(190)>>, <<P(140), P(153)>>,
     <<15625, 17554>>, <<12500, 14043>>, <<P(100), P(100) + 1>>}

HistoryReplies ==
    {Raised} \cup {Ok(s) : s \in SeriesOf(EndPoints, {P(60), P(1)}, MaxLen)}

\* One request, everything the provider may answer.
Next ==
    \E r \in {1} :
        \/ \E stock \in Tickers : Receive(r, stock)
        \/ \E reply \in InfoReplies : GetInfo(r, reply)
        \/ \E reply \in HistoryReplies : History(r, reply)
        \/ Return(r)

Spec == Init /\ [][Next]_vars

\* Concurrent requests, interleaved at the provider calls.
ConcInfoReplies ==
    {Raised, Ok(EmptyDict),
     Ok([k \in {"regularMarketPrice", "previousClose"} |->
            IF k = "previousClose" THEN Num(P(100)) ELSE Num(P(110))])}

ConcHistoryReplies == {Ok(<<>>), Ok(<<P(50), P(55)>>), Ok(<<P(200), P(190)>>)}

NextConc ==
    \E r \in Requests :
        \/ \E stock \in Tickers : Receive(r, stock)
        \/ \E reply \in ConcInfoReplies : GetInfo(r, reply)
        \/ \E reply \in ConcHistoryReplies : History(r, reply)
        \/ Return(r)

SpecConc == Init /\ [][NextConc]_vars

\* ------------------------------------------------------------ properties
Done(r) == req[r].pc = "done"

\* the provider answered the request's i-th call, and did not raise
Answered(r, i) == Len(seen[r]) >= i /\ seen[r][i].ok

\* the info dict the provider sent to request r
InfoSent(r) == seen[r][1].val

\* the series the provider sent for the i-th window
SeriesSent(r, i) == seen[r][i + 1].val

AllCalls == <<"info", "1mo", "6mo", "1y">>

PriceFields == {"price", "percent", "percent_1mo", "percent_6mo", "percent_1y"}

IsPrefix(s, t) == Len(s) <= Len(t) /\ \A i \in 1..Len(s) : s[i] = t[i]

\* p is a multiple of 1/100 nearest to n/d hundredths (d > 0)
Nearest(p, n, d) == 2 * Abs(p * d - n) <= d

\* ... and of two equally near ones the even one
NearestEven(p, n, d) ==
    /\ Nearest(p, n, d)
    /\ 2 * Abs(p * d - n) = d => p % 2 = 0

\* ... and of two equally near ones the one away from zero
NearestHalfUp(p, n, d) ==
    /\ Nearest(p, n, d)
    /\ 2 * Abs(p * d - n) = d => Abs(p) * d > Abs(n)

WindowField(body, i) ==
    CASE i = 1 -> body.percent_1mo
      [] i = 2 -> body.percent_6mo
      [] i = 3 -> body.percent_1y

\* C1: when the info the provider sent has no regularMarketPrice key, the
\* request has ended with status 400 and body {"error": "Invalid ticker!"}
\* after the info call alone: no historical series was ever fetched.
C1_MissingPriceIs400 ==
    \A r \in Requests :
        (Answered(r, 1) /\ "regularMarketPrice" \notin DOMAIN InfoSent(r)) =>
            /\ Done(r)
            /\ req[r].status = 400
            /\ req[r].body = [error |-> "Invalid ticker!"]
            /\ req[r].calls = <<"info">>
            /\ Len(seen[r]) = 1

C1_Witness ==
    \E r \in Requests :
        /\ Answered(r, 1)
        /\ DOMAIN InfoSent(r) = {"previousClose"}
        /\ req[r].status = 400

\* C2: whenever the info sent has no usable current price (the key missing,
\* or present with a null value), the request ends with the 400 "Invalid
\* ticker!" result after the info call alone, and a 200 record is only built
\* from an info whose regularMarketPrice is a number.
UsablePrice(info) ==
    "regularMarketPrice" \in DOMAIN info /\ IsNum(info["regularMarketPrice"])

C2_UnusablePriceIs400 ==
    \A r \in Requests :
        /\ (Answered(r, 1) /\ ~UsablePrice(InfoSent(r))) =>
              /\ Done(r)
              /\ req[r].status = 400
              /\ req[r].body = [error |-> "Invalid ticker!"]
              /\ req[r].calls = <<"info">>
        /\ req[r].status = 200 => UsablePrice(InfoSent(r))

\* C3: a response with status 200 has exactly the six fields stock, price,
\* percent, percent_1mo, percent_6mo, percent_1y; any other response (400,
\* 500, or none yet) carries none of the price and percent fields, also
\* when the fault came after some windows were computed.
C3_AllFieldsTogether ==
    \A r \in Requests :
        /\ req[r].status = 200 => DOMAIN req[r].body = PriceFields \cup {"stock"}
        /\ req[r].status # 200 => DOMAIN req[r].body \cap PriceFields = {}
        /\ req[r].status \in {0, 200, 400, 500}
        /\ req[r].status = 0 <=> ~Done(r)

C3_Witness ==
    \E r, q \in Requests :
        /\ req[r].status = 200
        /\ req[q].status = 500
        /\ Len(req[q].calls) = 3
        /\ DOMAIN req[q].data = {"1mo"}

\* C4: in a 200 response, percent is the multiple of 0.01 nearest to
\* (regularMarketPrice - previousClose) / previousClose * 100, taken from the
\* info the provider sent to this request; previousClose 100 and price 110
\* give 10.0, previousClose 150 and price 153 give 2.0.
C4_CurrentPercent ==
    \A r \in Requests :
        req[r].status = 200 =>
            LET c == Val(InfoSent(r)["regularMarketPrice"])
                p == Val(InfoSent(r)["previousClose"])
            IN  /\ p > 0
                /\ Nearest(req[r].body.percent, (c - p) * 10000, p)
                /\ (p = P(100) /\ c = P(110)) => req[r].body.percent = 1000
                /\ (p = P(150) /\ c = P(153)) => req[r].body.percent = 200

C4_Witness ==
    \E r \in Requests :
        /\ req[r].status = 200
        /\ InfoSent(r)["previousClose"] = Num(P(150))
        /\ InfoSent(r)["regularMarketPrice"] = Num(P(153))
        /\ req[r].body.percent = 200

\* C5: for each window, once its non-empty series has arrived, the percent
\* stored for that window (and reported in a 200 response under that
\* window's field) is the multiple of 0.01 nearest to (last - first) / first
\* * 100 of that window's own series, whatever lies between first and last:
\* 50 -> 55 gives 10.0, 200 -> 190 gives -5.0, 140 -> 153 gives 9.29.
C5_WindowPercent ==
    \A r \in Requests : \A i \in 1..3 :
        (Answered(r, i + 1) /\ Len(SeriesSent(r, i)) > 0) =>
            LET first == SeriesSent(r, i)[1]
                last == SeriesSent(r, i)[Len(SeriesSent(r, i))]
                w == AllCalls[i + 1]
            IN  /\ w \in DOMAIN req[r].data
                /\ Nearest(req[r].data[w], (last - first) * 10000, first)
                /\ (first = P(50) /\ last = P(55)) => req[r].data[w] = 1000
                /\ (first = P(200) /\ last = P(190)) => req[r].data[w] = -500
                /\ (first = P(140) /\ last = P(153)) => req[r].data[w] = 929
                /\ req[r].status = 200 => WindowField(req[r].body, i) = req[r].data[w]

C5_Witness ==
    \E r \in Requests :
        /\ req[r].status = 200
        /\ Len(SeriesSent(r, 1)) = 3 /\ SeriesSent(r, 1)[1] = P(140)
        /\ SeriesSent(r, 1)[2] = P(1) /\ SeriesSent(r, 1)[3] = P(153)
        /\ SeriesSent(r, 2)[1] = P(200) /\ Len(SeriesSent(r, 2)) = 2
        /\ SeriesSent(r, 3)[1] = P(50) /\ Len(SeriesSent(r, 3)) = 2
        /\ req[r].body.percent_1mo = 929
        /\ req[r].body.percent_6mo = -500
        /\ req[r].body.percent_1y = 1000

\* the five rounded values of a 200 response, each with the exact quotient
\* n/d (in hundredths) it was rounded from
Rounded(r) ==
    LET c == Val(InfoSent(r)["regularMarketPrice"])
        p == Val(InfoSent(r)["previousClose"])
    IN  {<<req[r].body.price, c * 100, 8>>,
         <<req[r].body.percent, (c - p) * 10000, p>>}
        \cup {<<WindowField(req[r].body, i),
                (SeriesSent(r, i)[Len(SeriesSent(r, i))] - SeriesSent(r, i)[1]) * 10000,
                SeriesSent(r, i)[1]>> : i \in 1..3}

C7_SameAnswersSameOutcome ==
    \A r, q \in Requests :
        (Done(r) /\ Done(q) /\ req[r].stock = req[q].stock /\ seen[r] = seen[q]) =>
            /\ req[r].status = req[q].status
            /\ req[r].body = req[q].body

C7_Witness ==
    \E r, q \in Requests :
        /\ r # q
        /\ Done(r) /\ Done(q)
        /\ req[r].stock = req[q].stock
        /\ seen[r] = seen[q]
        /\ req[r].status = 200 /\ req[q].status = 200

\* the i-th provider call of request r failed: it raised, or it was a
\* historical fetch that returned an empty series
Failed(r, i) ==
    /\ i <= Len(seen[r])
    /\ \/ ~seen[r][i].ok
       \/ i > 1 /\ Len(seen[r][i].val) = 0

\* C8: a request whose i-th provider call raised, or returned an empty
\* historical series, has ended with status 500 and no JSON body; it is
\* not a 400 or a 200, and the failed call is its last call: nothing is
\* retried and no later window is fetched.
C8_FaultIs500 ==
    \A r \in Requests : \A i \in 1..4 :
        Failed(r, i) =>
            /\ Done(r)
            /\ req[r].status = 500
            /\ req[r].body = NoBody
            /\ Len(seen[r]) = i
            /\ Len(req[r].calls) = i

C8_Witness ==
    \E r \in Requests :
        /\ Len(seen[r]) = 3
        /\ seen[r][3] = Ok(<<>>)
        /\ req[r].status = 500
        /\ "1mo" \in DOMAIN req[r].data

\* C9: the provider calls a request has issued are a prefix of info, 1mo,
\* 6mo, 1y (so at most four, the info call first, each window at most once
\* and in that order), each call was answered before the next was issued,
\* and a request that answered 200 has issued all four.
C9_CallOrder ==
    \A r \in Requests :
        /\ IsPrefix(req[r].calls, AllCalls)
        /\ Len(seen[r]) = Len(req[r].calls)
        /\ req[r].pc \in {"history", "return"} => Len(req[r].calls) >= 1
        /\ req[r].status = 200 => req[r].calls = AllCalls

C9_Witness ==
    \E r, q \in Requests :
        /\ req[r].status = 200 /\ req[r].calls = AllCalls
        /\ req[q].pc = "history" /\ req[q].calls = <<"info", "1mo", "6mo">>

\* C10: when the info sent has regularMarketPrice but previousClose is
\* missing or zero, the request has ended as an unhandled fault (status 500,
\* neither the 200 record nor the 400 error) after exactly one provider call.
C10_BadPreviousCloseFaults ==
    \A r \in Requests :
        (/\ Answered(r, 1)
         /\ "regularMarketPrice" \in DOMAIN InfoSent(r)
         /\ \/ "previousClose" \notin DOMAIN InfoSent(r)
            \/ InfoSent(r)["previousClose"] = Num(0)) =>
            /\ Done(r)
            /\ req[r].status = 500
            /\ req[r].body = NoBody
            /\ req[r].calls = <<"info">>
            /\ Len(seen[r]) = 1

C10_Witness ==
    \E r \in Requests :
        /\ Answered(r, 1)
        /\ DOMAIN InfoSent(r) = {"regularMarketPrice", "previousClose"}
        /\ InfoSent(r)["regularMarketPrice"] = Num(P(110))
        /\ InfoSent(r)["previousClose"] = Num(0)
        /\ req[r].status = 500

====
